---- MODULE Spec2Model ----
(***************************************************************************)
(* A model of run_parser (src/parser/fflogs_parser.py): the host spawns a  *)
(* Node.js worker, starts a daemon thread that drains the worker's stdout  *)
(* into a queue, writes four commands to the worker's stdin with settle    *)
(* delays in between, then polls the queue until both results arrived or   *)
(* ten seconds passed, terminates the worker and returns a dict.           *)
(*                                                                         *)
(* The worker is a black box: it may read its stdin, write any line to its *)
(* stdout, write to its stderr, or exit, at any moment.  The three pipes   *)
(* are finite.  Its stdout is read as lines of text.  Time is counted in   *)
(* ticks and passes only while the main thread blocks in the timed         *)
(* Queue.get.  The statements a thread executes between two operations on  *)
(* a pipe, the queue or the clock are taken as one step.                   *)
(***************************************************************************)
EXTENDS Integers, Sequences, FiniteSets

VARIABLES
    pc,           \* position of the main thread inside run_parser
    k,            \* index (= "id") of the command being sent, 0..3
    logUnits,     \* size of the log file read at line 133, in pipe units;
                  \* 0 again once parse-lines was encoded (its last use, line 179)
    sent,         \* history: the commands whose write has begun, in order
    flushed,      \* history: number of commands whose write+flush returned
    pending,      \* units of the current command not yet accepted by the pipe
    inbuf,        \* units sitting in the worker's stdin pipe
    errbuf,       \* units sitting in the worker's stderr pipe (never read)
    wstate,       \* the worker process: "none", "run", "errblocked", "exited"
    outLines,     \* history: every line the worker wrote to its stdout
    rd,           \* number of those lines read_thread has read so far
    dstate,       \* read_thread: "none", "run", "exited"
    published,    \* history: every value read_thread put on ipc_queue
    pubBefore,    \* history: how many of them were put before the deadline
    cons,         \* number of values the main thread took from ipc_queue
    taken,        \* history: the values ipc_queue.get returned, in order
    fights_data,  \* local of run_parser (line 212)
    master_data,  \* local of run_parser (line 213)
    now,          \* time.time(), in ticks since the deadline was computed
    timeout,      \* local of run_parser (line 215): the deadline
    waited,       \* ticks the current Queue.get has been blocked
    termCalled,   \* history: proc.terminate() was called
    threadStarts, \* history: number of times t.start() ran
    result,       \* the values run_parser returned (a sequence of length <= 1)
    raised        \* the exception that left run_parser, or "none"

vars == << pc, k, logUnits, sent, flushed, pending, inbuf, errbuf, wstate,
           outLines, rd, dstate, published, pubBefore, cons, taken,
           fights_data, master_data, now, timeout, waited, termCalled,
           threadStarts, result, raised >>

----------------------------------------------------------------------------
(* Bounds of the model.                                                    *)

\* lines the worker writes to its stdout in one run
MaxLines == 2
\* capacity of the worker's stdin pipe, in units
StdinCap == 2
\* capacity of the worker's stdout pipe, in lines
StdoutCap == 2
\* capacity of the worker's stderr pipe, in units
StderrCap == 1
\* the log file adds 0..MaxLogUnits units to the parse-lines command
MaxLogUnits == 1
\* the 10 second deadline of line 215, in ticks
TimeoutTicks == 4
\* the 0.1 second poll of line 218, in ticks
PollTicks == 2

----------------------------------------------------------------------------
(* Python and JSON values.                                                 *)

None == "None"
Missing == "<no such key>"
EmptyDict == "{}"
EmptyList == "[]"

\* bool(v) for the values that occur as payloads
Truthy(v) == v \notin {None, EmptyDict, EmptyList}

FIGHTS == "ipc-collect-fights"
MASTER == "ipc-collect-master-info"
SENTINEL == "__IPC__:"

\* a decoded JSON object with (possibly missing) keys channel and data
Dict(ch, d) == [type |-> "dict", channel |-> ch, data |-> d]
\* a decoded JSON value that is not an object
JsonList == [type |-> "list", channel |-> Missing, data |-> Missing]
JsonError == [type |-> "JSONDecodeError", channel |-> Missing, data |-> Missing]

\* the texts that follow the first eight characters of the lines below
T_FightsA == "{channel:ipc-collect-fights,id:2,data:[f1]}"
T_FightsEmpty == "{channel:ipc-collect-fights,id:2,data:[]}"
T_MasterA == "{channel:ipc-collect-master-info,id:3,data:{m:1}}"
T_Other == "{channel:ipc-parse-lines,id:1}"
T_NoChannel == "{id:0,data:{x:1}}"
T_List == "[1]"
T_Garbage == "{channel:"

\* json.loads(text.strip())
JsonLoads(text) ==
    CASE text = T_FightsA      -> Dict(FIGHTS, "[f1]")
      [] text = T_FightsEmpty  -> Dict(FIGHTS, EmptyList)
      [] text = T_MasterA      -> Dict(MASTER, "{m:1}")
      [] text = T_Other        -> Dict("ipc-parse-lines", Missing)
      [] text = T_NoChannel    -> Dict(Missing, "{x:1}")
      [] text = T_List         -> JsonList
      [] OTHER                 -> JsonError

\* a stdout line: its first eight characters and the rest
Line(head, rest) == [head |-> head, rest |-> rest]

\* the lines the worker may write
WorkerLines ==
    { Line("[worker]", T_FightsA),
      Line(SENTINEL, T_Garbage),
      Line(SENTINEL, T_FightsA),
      Line(SENTINEL, T_FightsEmpty),
      Line(SENTINEL, T_MasterA),
      Line(SENTINEL, T_Other),
      Line(SENTINEL, T_NoChannel),
      Line(SENTINEL, T_List) }

\* line.startswith("__IPC__:")
StartsWithSentinel(line) == line.head = SENTINEL

\* msg.get('channel', '')
GetChannel(msg) == IF msg.channel = Missing THEN "" ELSE msg.channel

\* msg.get('data', {})
GetData(msg) == IF msg.data = Missing THEN EmptyDict ELSE msg.data

----------------------------------------------------------------------------
(* Values built by run_parser.                                             *)

\* a variant of ErrorOutcome: the launch failure carries empty result fields
ErrorOutcomeWithFields(msg) == [error |-> msg, fights |-> None, master |-> None]

\* the dict returned at lines 125, 128, 135 and 148
ErrorOutcome(msg) == [error |-> msg]

\* the name of the i-th command written (lines 168, 176, 190, 202)
CommandName(i) ==
    CASE i = 0 -> "set-report-code"
      [] i = 1 -> "parse-lines"
      [] i = 2 -> "collect-fights"
      [] i = 3 -> "collect-master-info"

\* a variant of Command: the id of collect-fights is used again for
\* collect-master-info
CommandRepeatedId(i) ==
    [message |-> CommandName(i), id |-> IF i = 3 THEN 2 ELSE i]

\* the i-th command written: its "message" and its "id"
Command(i) == [message |-> CommandName(i), id |-> i]

\* the size of the i-th encoded command, in pipe units: parse-lines carries
\* the whole log file
CommandUnits(i, log) == IF i = 1 THEN 1 + log ELSE 1

\* the number of the last command
LastCommand == 3

\* a variant of LoopCond: one more iteration at the deadline
LoopCondInclusive(t, deadline) == t <= deadline

\* the test of the while loop at line 216
LoopCond(t, deadline) == t < deadline

\* the assignments of lines 222-225
RecordFights(channel, data, old) == IF channel = FIGHTS THEN data ELSE old

\* a variant of RecordMaster: an else in place of the elif of line 224
RecordMasterElse(channel, data, old) == IF channel # FIGHTS THEN data ELSE old

RecordMaster(channel, data, old) ==
    IF channel # FIGHTS /\ channel = MASTER THEN data ELSE old

\* the test of line 227
Complete(f, m) == Truthy(f) /\ Truthy(m)

\* a variant of AssembleOutcome: the failure does not carry what was received
AssembleOutcomeOpaque(f, m) ==
    IF ~Truthy(f) \/ ~Truthy(m)
    THEN [error |-> "Parser did not return complete data", fights |-> None, master |-> None]
    ELSE [fights |-> f, master |-> m]

\* the dict returned at lines 235-241
AssembleOutcome(f, m) ==
    IF ~Truthy(f) \/ ~Truthy(m)
    THEN [error |-> "Parser did not return complete data", fights |-> f, master |-> m]
    ELSE [fights |-> f, master |-> m]

----------------------------------------------------------------------------
(* The state after the call of run_parser, before its first statement.     *)

Init ==
    /\ pc = "download"
    /\ k = 0
    /\ logUnits = 0
    /\ sent = << >>
    /\ flushed = 0
    /\ pending = 0
    /\ inbuf = 0
    /\ errbuf = 0
    /\ wstate = "none"
    /\ outLines = << >>
    /\ rd = 0
    /\ dstate = "none"
    /\ published = << >>
    /\ pubBefore = 0
    /\ cons = 0
    /\ taken = << >>
    /\ fights_data = None
    /\ master_data = None
    /\ now = 0
    /\ timeout = -1
    /\ waited = 0
    /\ termCalled = FALSE
    /\ threadStarts = 0
    /\ result = << >>
    /\ raised = "none"

\* return v
Return(v) ==
    /\ result' = Append(result, v)
    /\ pc' = "done"

----------------------------------------------------------------------------
(* The main thread: resolving the worker image and launching the worker.   *)

\* lines 124-125
Download ==
    /\ pc = "download"
    /\ \E ok \in BOOLEAN :
          IF ok THEN pc' = "exists" /\ UNCHANGED result
                ELSE Return(ErrorOutcome("Parser download failed"))
    /\ UNCHANGED << taken, k, logUnits, sent, flushed, pending, inbuf, errbuf, wstate,
                    outLines, rd, dstate, published, pubBefore, cons,
                    fights_data, master_data, now, timeout, waited,
                    termCalled, threadStarts, raised >>

\* lines 127-128
ScriptExists ==
    /\ pc = "exists"
    /\ \E ok \in BOOLEAN :
          IF ok THEN pc' = "readlog" /\ UNCHANGED result
                ELSE Return(ErrorOutcome("Parser script not found"))
    /\ UNCHANGED << taken, k, logUnits, sent, flushed, pending, inbuf, errbuf, wstate,
                    outLines, rd, dstate, published, pubBefore, cons,
                    fights_data, master_data, now, timeout, waited,
                    termCalled, threadStarts, raised >>

\* lines 131-135
ReadLog ==
    /\ pc = "readlog"
    /\ \/ \E n \in 0..MaxLogUnits :
             /\ logUnits' = n
             /\ pc' = "spawn"
             /\ UNCHANGED result
       \/ /\ Return(ErrorOutcome("Failed to read log file"))
          /\ UNCHANGED logUnits
    /\ UNCHANGED << taken, k, sent, flushed, pending, inbuf, errbuf, wstate,
                    outLines, rd, dstate, published, pubBefore, cons,
                    fights_data, master_data, now, timeout, waited,
                    termCalled, threadStarts, raised >>

\* lines 138-148
Spawn ==
    /\ pc = "spawn"
    /\ \/ /\ wstate' = "run"
          /\ pc' = "thread"
          /\ UNCHANGED result
       \/ /\ Return(ErrorOutcome("Failed to start Node.js"))
          /\ UNCHANGED wstate
    /\ UNCHANGED << taken, k, logUnits, sent, flushed, pending, inbuf, errbuf,
                    outLines, rd, dstate, published, pubBefore, cons,
                    fights_data, master_data, now, timeout, waited,
                    termCalled, threadStarts, raised >>

\* proc.stdin.write(...) is entered with the i-th command (lines 168, 176,
\* 190, 202); 'lines' is not used after line 179
EnterWrite(i) ==
    /\ k' = i
    /\ sent' = Append(sent, Command(i))
    /\ pending' = CommandUnits(i, logUnits)
    /\ logUnits' = IF i = 1 THEN 0 ELSE logUnits
    /\ pc' = "flush"

\* the position after the test of the while loop at line 216, made at time
\* t: inside ipc_queue.get (line 218) or at the cleanup (line 233)
LoopHead(t, deadline) == IF LoopCond(t, deadline) THEN "get" ELSE "terminate"

\* lines 150-168: the queue, the thread, and the first write is entered
StartThread ==
    /\ pc = "thread"
    /\ dstate' = "run"
    /\ threadStarts' = threadStarts + 1
    /\ EnterWrite(0)
    /\ UNCHANGED << taken, flushed, inbuf, errbuf, wstate,
                    outLines, rd, published, pubBefore, cons,
                    fights_data, master_data, now, timeout, waited,
                    termCalled, result, raised >>

----------------------------------------------------------------------------
(* The main thread: writing the four commands.                             *)

\* the line-buffered write and proc.stdin.flush() push the command into the
\* pipe: they block while the pipe is full and raise BrokenPipeError once
\* the worker has exited (lines 168-169, 176-184, 190-196, 202-207)
Flush ==
    /\ pc = "flush"
    /\ IF wstate = "exited"
       THEN /\ raised' = "BrokenPipeError"
            /\ pc' = "raised"
            /\ UNCHANGED << inbuf, pending, flushed >>
       ELSE /\ inbuf < StdinCap
            /\ LET n == IF pending < StdinCap - inbuf THEN pending
                        ELSE StdinCap - inbuf
               IN  /\ inbuf' = inbuf + n
                   /\ pending' = pending - n
                   /\ IF pending = n
                      THEN flushed' = flushed + 1 /\ pc' = "sleep"
                      ELSE UNCHANGED << flushed, pc >>
            /\ UNCHANGED raised
    /\ UNCHANGED << taken, k, logUnits, sent, errbuf, wstate,
                    outLines, rd, dstate, published, pubBefore, cons,
                    fights_data, master_data, now, timeout, waited,
                    termCalled, threadStarts, result >>

\* time.sleep(...) returns (lines 170, 187, 199) and the next write is entered
Sleep ==
    /\ pc = "sleep"
    /\ k < LastCommand
    /\ EnterWrite(k + 1)
    /\ UNCHANGED << taken, flushed, inbuf, errbuf, wstate,
                    outLines, rd, dstate, published, pubBefore, cons,
                    fights_data, master_data, now, timeout, waited,
                    termCalled, threadStarts, result, raised >>

----------------------------------------------------------------------------
(* The worker process: any behaviour.                                      *)

\* the worker reads one unit of its stdin
WorkerRead ==
    /\ wstate = "run"
    /\ inbuf > 0
    /\ inbuf' = inbuf - 1
    /\ UNCHANGED << taken, pc, k, logUnits, sent, flushed, pending, errbuf, wstate,
                    outLines, rd, dstate, published, pubBefore, cons,
                    fights_data, master_data, now, timeout, waited,
                    termCalled, threadStarts, result, raised >>

\* the worker writes one line to its stdout (stdout=PIPE, line 142); the
\* write waits while the pipe is full
WorkerEmit ==
    /\ wstate = "run"
    /\ Len(outLines) < MaxLines
    /\ Len(outLines) - rd < StdoutCap
    /\ \E line \in WorkerLines : outLines' = Append(outLines, line)
    /\ UNCHANGED << taken, pc, k, logUnits, sent, flushed, pending, inbuf, errbuf,
                    wstate, rd, dstate, published, pubBefore, cons,
                    fights_data, master_data, now, timeout, waited,
                    termCalled, threadStarts, result, raised >>

\* the worker writes one unit to its stderr (stderr=PIPE, line 143), which
\* no one reads: once the pipe is full the write never returns
WorkerErr ==
    /\ wstate = "run"
    /\ IF errbuf < StderrCap
       THEN errbuf' = errbuf + 1 /\ UNCHANGED wstate
       ELSE wstate' = "errblocked" /\ UNCHANGED errbuf
    /\ UNCHANGED << taken, pc, k, logUnits, sent, flushed, pending, inbuf,
                    outLines, rd, dstate, published, pubBefore, cons,
                    fights_data, master_data, now, timeout, waited,
                    termCalled, threadStarts, result, raised >>

\* the worker exits on its own; the read end of its stdin pipe is closed and
\* what the pipe held is discarded
WorkerExit ==
    /\ wstate = "run"
    /\ wstate' = "exited"
    /\ inbuf' = 0
    /\ UNCHANGED << taken, pc, k, logUnits, sent, flushed, pending, errbuf,
                    outLines, rd, dstate, published, pubBefore, cons,
                    fights_data, master_data, now, timeout, waited,
                    termCalled, threadStarts, result, raised >>

\* the worker dies of the signal proc.terminate() sent (line 233)
WorkerKilled ==
    /\ termCalled
    /\ wstate \in {"run", "errblocked"}
    /\ wstate' = "exited"
    /\ inbuf' = 0
    /\ UNCHANGED << taken, pc, k, logUnits, sent, flushed, pending, errbuf,
                    outLines, rd, dstate, published, pubBefore, cons,
                    fights_data, master_data, now, timeout, waited,
                    termCalled, threadStarts, result, raised >>

----------------------------------------------------------------------------
(* read_thread (lines 152-162).                                            *)

\* the deadline of line 215 has not been reached
BeforeDeadline == timeout = -1 \/ now < timeout

\* a variant of Publish: the sentinel prefix is not tested
PublishUnfiltered(q, line) ==
    IF JsonLoads(line.rest).type # "JSONDecodeError"
    THEN Append(q, JsonLoads(line.rest))
    ELSE q

\* a variant of Publish: what arrives before the collection polls is dropped
PublishWhenCollecting(q, line) ==
    IF pc = "get" /\ StartsWithSentinel(line)
    THEN IF JsonLoads(line.rest).type # "JSONDecodeError"
         THEN Append(q, JsonLoads(line.rest))
         ELSE q
    ELSE q

\* what one iteration does with a line it read: the queue after it
Publish(q, line) ==
    IF StartsWithSentinel(line)
    THEN IF JsonLoads(line.rest).type # "JSONDecodeError"
         THEN Append(q, JsonLoads(line.rest))
         ELSE q
    ELSE q

\* a variant of DrainLine: reading the worker's output is serialised with
\* the writes of the main thread, as if both took one lock
DrainLineSerialised ==
    /\ pc # "flush"
    /\ dstate = "run"
    /\ rd < Len(outLines)
    /\ rd' = rd + 1
    /\ published' = Publish(published, outLines[rd + 1])
    /\ pubBefore' = IF BeforeDeadline THEN Len(published') ELSE pubBefore
    /\ UNCHANGED << taken, pc, k, logUnits, sent, flushed, pending, inbuf, errbuf,
                    wstate, outLines, dstate, cons,
                    fights_data, master_data, now, timeout, waited,
                    termCalled, threadStarts, result, raised >>

\* one iteration of the loop with a line read (lines 154-162)
DrainLine ==
    /\ dstate = "run"
    /\ rd < Len(outLines)
    /\ rd' = rd + 1
    /\ published' = Publish(published, outLines[rd + 1])
    /\ pubBefore' = IF BeforeDeadline THEN Len(published') ELSE pubBefore
    /\ UNCHANGED << taken, pc, k, logUnits, sent, flushed, pending, inbuf, errbuf,
                    wstate, outLines, dstate, cons,
                    fights_data, master_data, now, timeout, waited,
                    termCalled, threadStarts, result, raised >>

\* a variant of DrainEOF: the loop ends as soon as no line is waiting
DrainEOFOnEmptyPipe ==
    /\ dstate = "run"
    /\ rd = Len(outLines)
    /\ dstate' = "exited"
    /\ UNCHANGED << taken, pc, k, logUnits, sent, flushed, pending, inbuf, errbuf,
                    wstate, outLines, rd, published, pubBefore, cons,
                    fights_data, master_data, now, timeout, waited,
                    termCalled, threadStarts, result, raised >>

\* readline returns '' at end of stream: break (lines 154-156)
DrainEOF ==
    /\ dstate = "run"
    /\ rd = Len(outLines)
    /\ wstate = "exited"
    /\ dstate' = "exited"
    /\ UNCHANGED << taken, pc, k, logUnits, sent, flushed, pending, inbuf, errbuf,
                    wstate, outLines, rd, published, pubBefore, cons,
                    fights_data, master_data, now, timeout, waited,
                    termCalled, threadStarts, result, raised >>

----------------------------------------------------------------------------
(* The main thread: collecting (lines 212-230).                            *)

\* a variant of QueueGet: the newest value first, as a LifoQueue would
QueueGetNewest(q, n) == q[Len(q)]

\* what ipc_queue.get returns: the oldest value of the queue (queue.Queue,
\* line 150), q being all the values ever put and n the number already taken
QueueGet(q, n) == q[n + 1]

\* a variant of CollectInit: the collection begins after the settle delay
\* of collect-fights, before collect-master-info is written
CollectInitEarly ==
    /\ pc = "sleep"
    /\ k >= LastCommand - 1
    /\ fights_data' = None
    /\ master_data' = None
    /\ timeout' = now + TimeoutTicks
    /\ pc' = LoopHead(now, now + TimeoutTicks)
    /\ waited' = 0
    /\ UNCHANGED << taken, k, logUnits, sent, flushed, pending, inbuf, errbuf, wstate,
                    outLines, rd, dstate, published, pubBefore, cons,
                    now, termCalled, threadStarts, result, raised >>

\* time.sleep(0.5) returns (line 209); lines 212-216
CollectInit ==
    /\ pc = "sleep"
    /\ k = LastCommand
    /\ fights_data' = None
    /\ master_data' = None
    /\ timeout' = now + TimeoutTicks
    /\ pc' = LoopHead(now, now + TimeoutTicks)
    /\ waited' = 0
    /\ UNCHANGED << taken, k, logUnits, sent, flushed, pending, inbuf, errbuf, wstate,
                    outLines, rd, dstate, published, pubBefore, cons,
                    now, termCalled, threadStarts, result, raised >>

\* ipc_queue.get returns a value (lines 218-228), then line 216; msg.get
\* raises AttributeError when the value is not a dict
GetItem ==
    /\ pc = "get"
    /\ cons < Len(published)
    /\ cons' = cons + 1
    /\ taken' = Append(taken, QueueGet(published, cons))
    /\ waited' = 0
    /\ LET msg == QueueGet(published, cons)
           channel == GetChannel(msg)
           data == GetData(msg)
           f == RecordFights(channel, data, fights_data)
           m == RecordMaster(channel, data, master_data)
       IN  IF msg.type # "dict"
           THEN /\ raised' = "AttributeError"
                /\ pc' = "raised"
                /\ UNCHANGED << fights_data, master_data >>
           ELSE /\ fights_data' = f
                /\ master_data' = m
                /\ pc' = IF Complete(f, m) THEN "terminate"
                         ELSE LoopHead(now, timeout)
                /\ UNCHANGED raised
    /\ UNCHANGED << k, logUnits, sent, flushed, pending, inbuf, errbuf, wstate,
                    outLines, rd, dstate, published, pubBefore,
                    now, timeout, termCalled, threadStarts, result >>

\* one tick passes while Queue.get is blocked on the empty queue
GetTick ==
    /\ pc = "get"
    /\ cons = Len(published)
    /\ waited < PollTicks
    /\ waited' = waited + 1
    /\ now' = now + 1
    /\ UNCHANGED << taken, pc, k, logUnits, sent, flushed, pending, inbuf, errbuf,
                    wstate, outLines, rd, dstate, published, pubBefore, cons,
                    fights_data, master_data, timeout,
                    termCalled, threadStarts, result, raised >>

\* ipc_queue.get raises queue.Empty after its timeout: continue (lines
\* 229-230), then line 216
GetEmpty ==
    /\ pc = "get"
    /\ cons = Len(published)
    /\ waited = PollTicks
    /\ pc' = LoopHead(now, timeout)
    /\ waited' = 0
    /\ UNCHANGED << taken, k, logUnits, sent, flushed, pending, inbuf, errbuf, wstate,
                    outLines, rd, dstate, published, pubBefore, cons,
                    fights_data, master_data, now, timeout,
                    termCalled, threadStarts, result, raised >>

----------------------------------------------------------------------------
(* The main thread: cleanup and result (lines 232-241).                    *)

\* line 233
Terminate ==
    /\ pc = "terminate"
    /\ termCalled' = TRUE
    /\ pc' = "assemble"
    /\ UNCHANGED << taken, k, logUnits, sent, flushed, pending, inbuf, errbuf, wstate,
                    outLines, rd, dstate, published, pubBefore, cons,
                    fights_data, master_data, now, timeout, waited,
                    threadStarts, result, raised >>

\* lines 235-241
Assemble ==
    /\ pc = "assemble"
    /\ Return(AssembleOutcome(fights_data, master_data))
    /\ UNCHANGED << taken, k, logUnits, sent, flushed, pending, inbuf, errbuf, wstate,
                    outLines, rd, dstate, published, pubBefore, cons,
                    fights_data, master_data, now, timeout, waited,
                    termCalled, threadStarts, raised >>

----------------------------------------------------------------------------

Main ==
    \/ Download \/ ScriptExists \/ ReadLog \/ Spawn \/ StartThread
    \/ Flush \/ Sleep
    \/ CollectInit \/ GetItem \/ GetTick \/ GetEmpty
    \/ Terminate \/ Assemble

Worker == WorkerRead \/ WorkerEmit \/ WorkerErr \/ WorkerExit \/ WorkerKilled

Drain == DrainLine \/ DrainEOF

Next == Main \/ Worker \/ Drain

Spec == Init /\ [][Next]_vars

\* the threads of the host are scheduled fairly; nothing is assumed of the
\* worker
FairSpec == Spec /\ WF_vars(Main) /\ WF_vars(Drain)

----------------------------------------------------------------------------
(* Vocabulary of the properties.                                           *)

\* subprocess.Popen returned a process
Spawned == wstate # "none"

\* control has left run_parser
Left == pc \in {"done", "raised"}

\* the statements of the collection (lines 212-230) have been reached
ReachedCollection == timeout # -1

\* the dict is a failure / a success
IsFailure(v) == "error" \in DOMAIN v
IsSuccess(v) == DOMAIN v = {"fights", "master"}

\* the values put on the queue so far that are events of channel ch
IsEventOf(msg, ch) == msg.type = "dict" /\ msg.channel = ch

\* the positions, among the first n values put, of the events of channel ch
EventsOf(ch, n) == { i \in 1..n : IsEventOf(published[i], ch) }

Max(S) == CHOOSE x \in S : \A y \in S : y <= x
Min(S) == CHOOSE x \in S : \A y \in S : x <= y

----------------------------------------------------------------------------
\* C1: once the worker is spawned, run_parser eventually returns exactly one
\* Outcome and never hangs, whatever the worker does, when the main thread
\* and read_thread are scheduled fairly.  Stated here is what the claim
\* implies at the least: control eventually leaves run_parser.
C1_NeverHangs ==
    [](Spawned => <>Left)

\* C2: whenever control has left run_parser after the worker was spawned,
\* proc.terminate() has been called.
C2_TerminatedOnEveryExit ==
    (Left /\ Spawned) => termCalled

----------------------------------------------------------------------------
\* the worker has written no protocol line of a mandatory channel
NoMandatoryEmitted ==
    \A i \in 1..Len(outLines) :
        ~ /\ outLines[i].head = SENTINEL
          /\ \/ IsEventOf(JsonLoads(outLines[i].rest), FIGHTS)
             \/ IsEventOf(JsonLoads(outLines[i].rest), MASTER)

\* the collection loop was left through its test at line 216 or its break
AfterLoop == ReachedCollection /\ pc \in {"terminate", "assemble", "done"}

\* the payload of the first, and of the last, event of channel ch taken
\* from the queue
FirstPayload(ch) == GetData(published[Min(EventsOf(ch, cons))])
LastPayload(ch) == GetData(published[Max(EventsOf(ch, cons))])

\* C3: if events of both mandatory channels were put on the queue before the
\* deadline, the collection ends before the deadline and run_parser returns
\* a success that carries a fights payload and a master payload received.
C3_EarlyReturnSuccess ==
    ( /\ pc = "done"
      /\ EventsOf(FIGHTS, pubBefore) # {}
      /\ EventsOf(MASTER, pubBefore) # {} )
    => /\ now < timeout
       /\ IsSuccess(result[1])
       /\ \E i \in EventsOf(FIGHTS, cons) : result[1].fights = GetData(published[i])
       /\ \E i \in EventsOf(MASTER, cons) : result[1].master = GetData(published[i])

\* C4 as claimed: if the worker never emits the mandatory channels, the
\* collection loop ends exactly at the deadline, not after it, and the
\* Outcome is a failure.
C4_ReturnsExactlyAtDeadline ==
    (NoMandatoryEmitted /\ AfterLoop)
    => /\ now = timeout
       /\ pc = "done" => IsFailure(result[1])

\* C4 as amended: if the worker never emits the mandatory channels, no
\* Queue.get is begun once the deadline has been reached, the loop is never
\* still running one poll interval after the deadline, and when it ends
\* through its test it does so at or after the deadline and the Outcome is a
\* failure.
C4_ReturnsWithinOnePoll ==
    (NoMandatoryEmitted /\ ReachedCollection)
    => /\ now < timeout + PollTicks
       /\ pc = "get" => now - waited < timeout
       /\ AfterLoop => now >= timeout
       /\ (AfterLoop /\ pc = "done") => IsFailure(result[1])

\* C4: a run without mandatory events returned a failure after the deadline
C4_Witness ==
    /\ NoMandatoryEmitted
    /\ AfterLoop
    /\ pc = "done"
    /\ now > timeout
    /\ IsFailure(result[1])

\* C5: during the collection, the payload recorded for a mandatory channel
\* is the payload of the first event of that channel taken from the queue.
C5_NeverOverwritten ==
    (ReachedCollection /\ pc \in {"get", "terminate", "assemble", "done"})
    => /\ EventsOf(FIGHTS, cons) # {} => fights_data = FirstPayload(FIGHTS)
       /\ EventsOf(MASTER, cons) # {} => master_data = FirstPayload(MASTER)

\* C6: when a write of a command failed, no further command is sent, the
\* collection still runs, the worker is terminated and run_parser returns a
\* dict instead of raising.
C6_WriteFailureYieldsOutcome ==
    raised = "BrokenPipeError"
    => /\ pc # "raised"
       /\ Left => (ReachedCollection /\ termCalled /\ Len(result) = 1)

----------------------------------------------------------------------------
\* the payload held for channel ch when no event, or some events, of it
\* were taken from the queue
Received(ch) == IF EventsOf(ch, cons) = {} THEN None ELSE LastPayload(ch)

\* C7: when run_parser returns after a collection in which no event of some
\* mandatory channel was taken from the queue, the deadline has passed and
\* the dict is a failure whose fights and master are the payloads received:
\* the payload of the (last) event taken for a channel, None for a channel
\* without event.
C7_PartialPayloads ==
    ( /\ ReachedCollection
      /\ pc = "done"
      /\ \/ EventsOf(FIGHTS, cons) = {}
         \/ EventsOf(MASTER, cons) = {} )
    => /\ now >= timeout
       /\ result = << [error |-> "Parser did not return complete data",
                       fights |-> Received(FIGHTS),
                       master |-> Received(MASTER)] >>

\* C7: the worker wrote the fights event only and exited; run_parser
\* returned a failure with fights populated and master None
C7_Witness ==
    /\ ReachedCollection
    /\ pc = "done"
    /\ wstate = "exited"
    /\ outLines = << Line(SENTINEL, T_FightsA) >>
    /\ IsFailure(result[1])
    /\ result[1].fights = "[f1]"
    /\ result[1].master = None

\* the error messages of the launch failures (lines 125, 128, 148)
LaunchErrors ==
    {"Parser download failed", "Parser script not found", "Failed to start Node.js"}

\* run_parser returned a launch failure
LaunchFailed ==
    /\ Len(result) > 0
    /\ IsFailure(result[1])
    /\ result[1].error \in LaunchErrors

\* C8: a launch failure is returned with no field but the error, and in that
\* run no command was written, read_thread was not started, no worker
\* process exists, and nothing was waited for; a run whose worker was never
\* spawned and that wrote no log error ends in exactly that way.
C8_LaunchFailure ==
    /\ LaunchFailed
       => /\ pc = "done"
          /\ Len(result) = 1
          /\ DOMAIN result[1] = {"error"}
          /\ sent = << >>
          /\ inbuf = 0
          /\ threadStarts = 0
          /\ dstate = "none"
          /\ wstate = "none"
          /\ ~ReachedCollection
          /\ now = 0
    /\ (pc = "done" /\ wstate = "none")
       => /\ Len(result) = 1
          /\ DOMAIN result[1] = {"error"}
          /\ result[1].error \in LaunchErrors \cup {"Failed to read log file"}

\* C8: the spawn failed and run_parser returned
C8_Witness ==
    /\ pc = "done"
    /\ LaunchFailed
    /\ result[1].error = "Failed to start Node.js"

\* the four commands of a complete session
AllCommands ==
    << [message |-> "set-report-code", id |-> 0],
       [message |-> "parse-lines", id |-> 1],
       [message |-> "collect-fights", id |-> 2],
       [message |-> "collect-master-info", id |-> 3] >>

\* C9: the commands written are always a prefix of the four commands, with
\* ids 0, 1, 2, 3; a command's write begins only when every earlier write
\* and flush has returned; in a run that reached the collection all four
\* were written and flushed, each once.
C9_CommandOrder ==
    /\ Len(sent) <= 4
    /\ sent = SubSeq(AllCommands, 1, Len(sent))
    /\ \A i \in 1..Len(sent) : \A j \in 1..Len(sent) :
          i < j => sent[i].id < sent[j].id
    /\ flushed <= Len(sent)
    /\ Len(sent) <= flushed + 1
    /\ ReachedCollection => (sent = AllCommands /\ flushed = 4)

\* C9: the collection began after the four commands
C9_Witness ==
    /\ pc = "get"
    /\ Len(sent) = 4
    /\ flushed = 4

\* the line carries the sentinel and a text that decodes
IsProtocolLine(line) ==
    /\ line.head = "__IPC__:"
    /\ JsonLoads(line.rest).type \in {"dict", "list"}

\* the events of the protocol lines among ls, in order
EventsIn(ls) ==
    LET good == SelectSeq(ls, IsProtocolLine)
    IN  [i \in 1..Len(good) |-> JsonLoads(good[i].rest)]

----------------------------------------------------------------------------
\* C11 as claimed: every event read_thread published is consumed exactly
\* once by the collection, none is left unconsumed: once run_parser has
\* returned and read_thread has ended, every value put on the queue was
\* taken.
C11_EveryEventConsumed ==
    (pc = "done" /\ dstate = "exited") => cons = Len(published)

\* C11 as amended: no published event is consumed twice and none is skipped:
\* the values taken from the queue are always exactly the first values put,
\* in order, and a value is taken only inside ipc_queue.get, one at a time;
\* values still queued or put when the collection loop has ended are not
\* consumed.
C11_ConsumedInOrderOnce ==
    /\ [](taken = SubSeq(published, 1, cons))
    /\ [][cons' # cons => /\ pc = "get"
                          /\ cons < Len(published)
                          /\ cons' = cons + 1]_vars

\* C11: run_parser returned having consumed an event and left another one
\* in the queue
C11_Witness ==
    /\ pc = "done"
    /\ cons >= 1
    /\ cons < Len(published)

\* the channels the collector waits for
Mandatory == {FIGHTS, MASTER}

\* the value the collector took last
LastTaken == taken[Len(taken)]

\* C12: consuming an object whose channel is neither ipc-collect-fights nor
\* ipc-collect-master-info, or which has no channel field, leaves fights_data
\* and master_data as they were, raises nothing, and the loop goes on: the
\* next step of the collector is another ipc_queue.get unless the deadline
\* has been reached.
C12_UnexpectedChannelIgnored ==
    [][ ( /\ cons' = cons + 1
          /\ published[cons + 1].type = "dict"
          /\ GetChannel(published[cons + 1]) \notin Mandatory )
        => /\ fights_data' = fights_data
           /\ master_data' = master_data
           /\ raised' = raised
           /\ pc' = IF now < timeout THEN "get" ELSE "terminate" ]_vars

\* C12: an event of another channel was consumed after the fights payload was
\* recorded, and the collector is polling again
C12_Witness ==
    /\ pc = "get"
    /\ cons = 2
    /\ LastTaken.type = "dict"
    /\ GetChannel(LastTaken) \notin Mandatory
    /\ fights_data = "[f1]"
    /\ master_data = None

\* C13: the worker is never stuck in a write to its stderr pipe that is full
\* and that no one reads.
C13_NeverStuckOnStderr == wstate # "errblocked"

\* the main thread is sequencing commands or collecting
Sequencing == pc \in {"flush", "sleep"}
Collecting == pc = "get"

OneOfEachArrived ==
    /\ Cardinality(EventsOf(FIGHTS, Len(published))) = 1
    /\ Cardinality(EventsOf(MASTER, Len(published))) = 1
    /\ EventsOf(FIGHTS, pubBefore) # {}
    /\ EventsOf(MASTER, pubBefore) # {}
    /\ \A i \in 1..Len(published) : published[i].type = "dict"

\* C15: when one fights event and one master event arrive, in either order,
\* during the sequencing or the collection, between any other lines and
\* events of other channels, run_parser returns the success made of the
\* payloads of these two events.
C15_OrderIndependent ==
    (pc = "done" /\ OneOfEachArrived)
    => result = << [fights |-> GetData(published[Min(EventsOf(FIGHTS, pubBefore))]),
                    master |-> GetData(published[Min(EventsOf(MASTER, pubBefore))])] >>

\* C16: nothing is taken from ipc_queue while the commands are being written;
\* a settle delay ends whether or not anything was put on the queue; and once
\* a value has been taken, all four commands have been written and flushed,
\* collect-master-info last.
C16_Pipelined ==
    /\ Sequencing => cons = 0
    /\ pc = "sleep" => ENABLED (Sleep \/ CollectInit)
    /\ cons > 0 => /\ sent = AllCommands
                   /\ flushed = Len(AllCommands)

\* C16: responses are waiting in the queue, untouched, while the last
\* command is being written
C16_Witness ==
    /\ pc = "flush"
    /\ k = LastCommand
    /\ Len(published) >= 1
    /\ cons = 0

\* the worker's stdout is at end-of-stream for read_thread: the worker has
\* exited and every line it wrote has been read
EndOfStream == wstate = "exited" /\ rd = Len(outLines)

C18_NothingLostBeforeCollection ==
    /\ ~ReachedCollection
       => /\ cons = 0
          /\ Len(published) = Len(EventsIn(SubSeq(outLines, 1, rd)))
          /\ \A i \in 1..Len(published) :
                published[i] = EventsIn(SubSeq(outLines, 1, rd))[i]
    /\ Len(taken) = cons
    /\ cons <= Len(published)
    /\ \A i \in 1..cons : taken[i] = published[i]

\* C18: the collector took two different events in the order they were put,
\* before any time had passed in the collection
C18_Witness ==
    /\ ReachedCollection
    /\ now = 0
    /\ cons = 2
    /\ taken = published
    /\ taken[1] # taken[2]

\* C19: once an event of each mandatory channel has been taken from the
\* queue, whatever the payloads, the collection is complete: the loop polls
\* no more and run_parser returns a success.
C19_AnyPayloadCounts ==
    ( /\ ReachedCollection
      /\ EventsOf(FIGHTS, cons) # {}
      /\ EventsOf(MASTER, cons) # {} )
    => /\ pc # "get"
       /\ pc = "done" => IsSuccess(result[1])

\* C20: no value taken from the queue makes the collection raise: whatever
\* was published, the main thread does not leave the loop through an
\* exception, and once a value was taken and control has left run_parser,
\* proc.terminate() was called and a dict was returned.
C20_NoPublishedValueRaises ==
    /\ raised # "AttributeError"
    /\ (cons > 0 /\ Left) => (termCalled /\ pc = "done")

============================================================================
